---- MODULE Spec2Model ----
(***************************************************************************)
(* HS1-SIV (parameter set hs1-siv-hi) as implemented by Yawning/hs1siv:    *)
(* the ChaCha20 stream cipher, the HS1 hash, the SIV construction and the  *)
(* AEAD interface (New, Seal, Open), bit for bit.                          *)
(*                                                                         *)
(* Number representation.  TLC integers are 32-bit signed, so the Go       *)
(* fixed-width types are kept as little-endian limbs of 16 bits:           *)
(*   byte    a number in 0..255                                            *)
(*   uint32  <<lo16, hi16>>                                                *)
(*   uint64  <<l0, l1, l2, l3>>                                            *)
(* Every operation reduces modulo 2^32 or 2^64 exactly as Go does.         *)
(***************************************************************************)
EXTENDS Integers, Sequences, FiniteSets, TLC

(***************************************************************************)
(* Bit operations on bytes and limbs.                                      *)
(***************************************************************************)
RECURSIVE XorBits(_, _, _)
XorBits(a, b, k) ==
  IF k = 0 THEN 0 ELSE ((a + b) % 2) + (2 * XorBits(a \div 2, b \div 2, k - 1))

RECURSIVE AndBits(_, _, _)
AndBits(a, b, k) ==
  IF k = 0 THEN 0 ELSE ((a % 2) * (b % 2)) + (2 * AndBits(a \div 2, b \div 2, k - 1))

\* a ^ b on bytes, tabulated once (index = value + 1).
XorTab ==
  SubSeq([a \in 1..256 |-> SubSeq([b \in 1..256 |-> XorBits(a - 1, b - 1, 8)], 1, 256)], 1, 256)

Xor8(a, b) == XorTab[a + 1][b + 1]

Xor16(a, b) == (Xor8(a \div 256, b \div 256) * 256) + Xor8(a % 256, b % 256)

Pow2(n) == 2 ^ n

\* TLC evaluates operator arguments on first use; a loop that passes an
\* unevaluated accumulator down nests every pending iteration.
\* Strict(v, e) is e, with v evaluated first.
Strict(v, e) == IF v = v THEN e ELSE e

\* Op applied to v: the value v, computed once and first, under the name Op
\* gives it.
With(v, Op(_)) == Strict(v, Op(v))

(***************************************************************************)
(* uint32 arithmetic.                                                      *)
(***************************************************************************)
U32Zero == <<0, 0>>

\* uint32(n) for a small non-negative Go int n (n < 2^31).
U32FromInt(n) == <<n % 65536, n \div 65536>>

Add32(a, b) ==
  LET l == a[1] + b[1]
  IN  <<l % 65536, (a[2] + b[2] + (l \div 65536)) % 65536>>

Xor32(a, b) == <<Xor16(a[1], b[1]), Xor16(a[2], b[2])>>

\* bits.RotateLeft32(a, r) for 0 < r <= 16.
RotateLeft32(a, r) ==
  IF r = 16 THEN <<a[2], a[1]>>
  ELSE <<((a[1] * Pow2(r)) % 65536) + (a[2] \div Pow2(16 - r)),
         ((a[2] * Pow2(r)) % 65536) + (a[1] \div Pow2(16 - r))>>

\* binary.LittleEndian.Uint32(b[off:]) ; off is the Go (0-based) offset.
Uint32(b, off) ==
  <<b[off + 1] + (256 * b[off + 2]), b[off + 3] + (256 * b[off + 4])>>

\* The four bytes binary.LittleEndian.PutUint32 stores.
PutUint32(v) == <<v[1] % 256, v[1] \div 256, v[2] % 256, v[2] \div 256>>

(***************************************************************************)
(* uint64 arithmetic.                                                      *)
(***************************************************************************)
U64Zero == <<0, 0, 0, 0>>
U64One == <<1, 0, 0, 0>>

\* uint64(n) for a small non-negative Go int n (n < 2^31).
U64FromInt(n) == <<n % 65536, n \div 65536, 0, 0>>

\* uint64(uint32 value)
U64From32(w) == <<w[1], w[2], 0, 0>>

\* uint32(x) and uint32(x >> 32)
Lo32(x) == <<x[1], x[2]>>
Hi32(x) == <<x[3], x[4]>>

Add64(a, b) ==
  LET t1 == a[1] + b[1]
      t2 == a[2] + b[2] + (t1 \div 65536)
      t3 == a[3] + b[3] + (t2 \div 65536)
      t4 == a[4] + b[4] + (t3 \div 65536)
  IN  <<t1 % 65536, t2 % 65536, t3 % 65536, t4 % 65536>>

Sub64(a, b) ==
  LET t1 == a[1] - b[1]
      c1 == IF t1 < 0 THEN 1 ELSE 0
      t2 == a[2] - b[2] - c1
      c2 == IF t2 < 0 THEN 1 ELSE 0
      t3 == a[3] - b[3] - c2
      c3 == IF t3 < 0 THEN 1 ELSE 0
      t4 == a[4] - b[4] - c3
  IN  <<t1 % 65536, t2 % 65536, t3 % 65536, t4 % 65536>>

\* x * y for 16-bit x, y, as a uint32.
Mul16(x, y) ==
  LET p0 == (x % 256) * y
      p1 == (x \div 256) * y
      t  == p0 + (256 * (p1 % 256))
  IN  <<t % 65536, (p1 \div 256) + (t \div 65536)>>

\* The 64-bit sum p00 + (p01 + p10) * 2^16 + p11 * 2^32 of uint32 values.
SumProducts(p00, p01, p10, p11) ==
  LET t1 == p00[2] + p01[1] + p10[1]
      t2 == p01[2] + p10[2] + p11[1] + (t1 \div 65536)
  IN  <<p00[1], t1 % 65536, t2 % 65536, (p11[2] + (t2 \div 65536)) % 65536>>

\* uint64(a) * uint64(b) for uint32 a, b (the full 64-bit product).
Mul32(a, b) ==
  SumProducts(Mul16(a[1], b[1]), Mul16(a[1], b[2]), Mul16(a[2], b[1]), Mul16(a[2], b[2]))

Limb(x, i) == IF i >= 1 /\ i <= 4 THEN x[i] ELSE 0

\* x << n and x >> n on uint64, 0 <= n < 64.
Shl64(x, n) ==
  LET q == n \div 16
      r == n % 16
  IN  [i \in 1..4 |->
         IF r = 0 THEN Limb(x, i - q)
         ELSE ((Limb(x, i - q) * Pow2(r)) % 65536) + (Limb(x, i - q - 1) \div Pow2(16 - r))]

Shr64(x, n) ==
  LET q == n \div 16
      r == n % 16
  IN  [i \in 1..4 |->
         IF r = 0 THEN Limb(x, i + q)
         ELSE (Limb(x, i + q) \div Pow2(r)) + ((Limb(x, i + q + 1) * Pow2(16 - r)) % 65536)]

And64(a, b) == [i \in 1..4 |-> AndBits(a[i], b[i], 16)]

\* k * uint64(w) mod 2^64 for uint64 k and uint32 w.
Mul64x32(k, w) == Add64(Mul32(Lo32(k), w), Shl64(Mul32(Hi32(k), w), 32))

\* binary.LittleEndian.Uint64(b[off:])
Uint64(b, off) ==
  <<b[off + 1] + (256 * b[off + 2]), b[off + 3] + (256 * b[off + 4]),
    b[off + 5] + (256 * b[off + 6]), b[off + 7] + (256 * b[off + 8])>>

\* The eight bytes binary.LittleEndian.PutUint64 stores.
PutUint64(v) ==
  <<v[1] % 256, v[1] \div 256, v[2] % 256, v[2] \div 256,
    v[3] % 256, v[3] \div 256, v[4] % 256, v[4] \div 256>>

(***************************************************************************)
(* Byte slices.                                                            *)
(***************************************************************************)
Zeros(n) == [i \in 1..n |-> 0]

\* Go's copy(dst, src): min(len) bytes of src over the front of dst.
Copy(dst, src) ==
  [i \in 1..Len(dst) |-> IF i <= Len(src) THEN src[i] ELSE dst[i]]

\* dst with copy(dst[off:], src) applied.
CopyAt(dst, off, src) ==
  [i \in 1..Len(dst) |->
     IF i > off /\ i - off <= Len(src) THEN src[i - off] ELSE dst[i]]

\* s[lo:hi] of a Go slice (0-based, hi exclusive).
Slice(s, lo, hi) == SubSeq(s, lo + 1, hi)

(***************************************************************************)
(* Sizes and parameters.                                                   *)
(***************************************************************************)
KeySize == 32
NonceSize == 12
TagSize == 32

hs1NHLen == 64
hs1HashRounds == 6
hs1SIVLen == 32

chacha20KeySize == 32
chacha20NonceSize == 12
chacha20Rounds == 20

chachaKeySize == 32
chachaNonceSize == 12
chachaStateSize == 16
chachaBlockSize == 64
chachaRounds == 20

nhKeyLen == (hs1NHLen \div 4) + (4 * (hs1HashRounds - 1))
hashStateSize == (nhKeyLen * 4) + (hs1HashRounds * 8) + (hs1HashRounds * 3 * 8)
stateSize == chacha20KeySize + hashStateSize

\* (1 << 60) - 1 and (1 << 61) - 1
m60 == <<65535, 65535, 65535, 4095>>
m61 == <<65535, 65535, 65535, 8191>>

\* 0x61707865, 0x3320646e, 0x79622d32, 0x6b206574
sigma0 == <<30821, 24944>>
sigma1 == <<25710, 13088>>
sigma2 == <<11570, 31074>>
sigma3 == <<25972, 27424>>

settings == <<0, 0, hs1SIVLen, 0, chacha20Rounds, hs1HashRounds, hs1NHLen, 0, 0, 0, 0, 0>>

(***************************************************************************)
(* ChaCha20 (chacha20.go).                                                 *)
(***************************************************************************)
\* Three of the twelve statements of a quarter round, on the words a, b, d
\* of x (1-based indices):
\*   x[a] += x[b] ; x[d] ^= x[a] ; x[d] = bits.RotateLeft32(x[d], r)
\* Mixed takes the new x[a], Mix computes it.
Mixed(x, a, d, r, sum) ==
  [x EXCEPT ![a] = sum, ![d] = RotateLeft32(Xor32(x[d], sum), r)]

Mix(x, a, b, d, r) == Mixed(x, a, d, r, Add32(x[a], x[b]))

\* One quarter round on the words a, b, c, d of x: the twelve statements
\* the source repeats for each column and diagonal.
QuarterRound(x, a, b, c, d) ==
  Mix(Mix(Mix(Mix(x, a, b, d, 16), c, d, b, 12), a, b, d, 8), c, d, b, 7)

\* The words of the four column rounds and of the four diagonal rounds, in
\* the order of the source.
quarterRounds ==
  << <<1, 5, 9, 13>>, <<2, 6, 10, 14>>, <<3, 7, 11, 15>>, <<4, 8, 12, 16>>,
     <<1, 6, 11, 16>>, <<2, 7, 12, 13>>, <<3, 8, 9, 14>>, <<4, 5, 10, 15>> >>

\* The quarter rounds from the i-th on.
RECURSIVE QuarterRounds(_, _)
QuarterRounds(x, i) ==
  IF i > Len(quarterRounds) THEN x
  ELSE With(QuarterRound(x, quarterRounds[i][1], quarterRounds[i][2],
                         quarterRounds[i][3], quarterRounds[i][4]), LAMBDA y :
         QuarterRounds(y, i + 1))

\* The body of the round loop: four column rounds, four diagonal rounds.
DoubleRound(x) == QuarterRounds(x, 1)

\* for i := chachaRounds; i > 0; i -= 2
RECURSIVE RoundLoop(_, _)
RoundLoop(x, i) ==
  IF i > 0 THEN With(DoubleRound(x), LAMBDA y : RoundLoop(y, i - 2)) ELSE x

\* The 64 bytes of the words x_i + s_i, little endian.
SumBytes(x, s) ==
  SubSeq([i \in 1..chachaBlockSize |->
            PutUint32(Add32(x[((i - 1) \div 4) + 1], s[((i - 1) \div 4) + 1]))[((i - 1) % 4) + 1]],
         1, chachaBlockSize)

\* The 64 key-stream bytes of the block with state s.
KeyStreamBlock(s) == SumBytes(RoundLoop(s, chachaRounds), s)

\* out with the block at off replaced by in XOR the key-stream block ks.
XorBlock(in, out, off, ks) ==
  SubSeq([i \in 1..Len(out) |->
            IF i > off /\ i <= off + chachaBlockSize
            THEN Xor8(in[i], ks[i - off]) ELSE out[i]], 1, Len(out))

\* The block loop, with in and out advanced by off bytes so far.
RECURSIVE BlocksLoop(_, _, _, _, _)
BlocksLoop(s, in, out, off, nrBlocks) ==
  IF nrBlocks > 0
  THEN With(XorBlock(in, out, off, KeyStreamBlock(s)), LAMBDA o2 :
         BlocksLoop([s EXCEPT ![13] = Add32(@, <<1, 0>>)], in, o2,
                    off + chachaBlockSize, nrBlocks - 1))
  ELSE [s |-> s, out |-> out]

chachaBlocksRef(s, in, out, nrBlocks) == BlocksLoop(s, in, out, 0, nrBlocks)

\* Returns the state, the out buffer and the scratch block as the call leaves
\* them (partial stays all zero when there is no partial block).
chachaXORKeyStreamRef(s, in, out) ==
  LET fullBlocks == Len(in) \div chachaBlockSize
      off == fullBlocks * chachaBlockSize
      inLen == Len(in) - off
      partial == Copy(Zeros(chachaBlockSize), Slice(in, off, Len(in)))
  IN  With(IF fullBlocks > 0 THEN chachaBlocksRef(s, in, out, fullBlocks)
           ELSE [s |-> s, out |-> out], LAMBDA full :
        IF inLen > 0
        THEN With(chachaBlocksRef(full.s, partial, partial, 1), LAMBDA last :
               [s |-> last.s, out |-> CopyAt(full.out, off, last.out),
                partial |-> last.out])
        ELSE [s |-> full.s, out |-> full.out, partial |-> Zeros(chachaBlockSize)])

(***************************************************************************)
(* The program's state.                                                    *)
(*   cpu         the host: the build in use and what its CPU reports       *)
(*   isHardwareAccelerated, hardwareAccelImpl   the selected back-end      *)
(*   zero        the package-level all-zero block the SIV is derived from  *)
(*   aead        the instances New has returned (each owns its key bytes)  *)
(*   mem         the callers' byte arrays, by array id                     *)
(*   pc, fr      each goroutine's position and the frame of its call:      *)
(*               arguments, results and the locals of Seal/Open and of the *)
(*               functions they call, as the call left them                *)
(*   gh          per goroutine, the values the caller passed (kept apart   *)
(*               from mem, which the call may overwrite)                   *)
(*   log         the first output of Seal per (key, nonce, plaintext, AD)  *)
(*   ncalls      calls started so far                                      *)
(*   fn          inputs and outputs of a function applied on its own       *)
(***************************************************************************)
VARIABLES cpu, isHardwareAccelerated, hardwareAccelImpl, zero, aead, mem, pc, fr,
          gh, log, ncalls, fn

vars == <<cpu, isHardwareAccelerated, hardwareAccelImpl, zero, aead, mem, pc, fr,
          gh, log, ncalls, fn>>

implReference == "Reference"
implAVX2BMI2 == "AVX2"

\* burnUint32s(s[:]): overwrite with zero.
burnUint32s(s) == [i \in 1..Len(s) |-> U32Zero]

(***************************************************************************)
(* The accelerated key-stream function, from its contract: byte i of the   *)
(* input is XORed with byte i of the key stream of consecutive blocks,     *)
(* only the needed prefix of a partial final block reaches the caller's    *)
(* buffer, and the block counter advances by the blocks used.              *)
(***************************************************************************)
RECURSIVE AddCounter(_, _)
AddCounter(s, n) ==
  IF n = 0 THEN s
  ELSE With([s EXCEPT ![13] = Add32(@, <<1, 0>>)], LAMBDA s2 : AddCounter(s2, n - 1))

chachaXORKeyStreamAVX2(s, in, out) ==
  LET nb == (Len(in) + chachaBlockSize - 1) \div chachaBlockSize
  IN  With(SubSeq([b \in 1..nb |-> KeyStreamBlock(AddCounter(s, b - 1))], 1, nb),
           LAMBDA ks :
        [s |-> AddCounter(s, nb),
         out |-> [i \in 1..Len(out) |->
                    IF i <= Len(in)
                    THEN Xor8(in[i], ks[((i - 1) \div chachaBlockSize) + 1]
                                       [((i - 1) % chachaBlockSize) + 1])
                    ELSE out[i]],
         partial |-> Zeros(chachaBlockSize)])

\* The call through the selected implementation pair.
chachaXORKeyStream(s, in, out) ==
  IF hardwareAccelImpl = implAVX2BMI2
  THEN chachaXORKeyStreamAVX2(s, in, out)
  ELSE chachaXORKeyStreamRef(s, in, out)

\* chacha20(key, nonce, in, out, initialCounter).  The result holds the out
\* buffer, and what the call leaves of its cipher state and scratch block.
chacha20(key, nonce, in, out, initialCounter) ==
  IF Len(key) # chachaKeySize
  THEN [panic |-> "hs1siv: invalid chacha key size", out |-> out,
        s |-> <<>>, partial |-> <<>>]
  ELSE IF Len(nonce) # chachaNonceSize
  THEN [panic |-> "hs1siv: invalid chacha nonce size", out |-> out,
        s |-> <<>>, partial |-> <<>>]
  ELSE IF Len(in) = 0
  THEN [panic |-> "", out |-> out, s |-> <<>>, partial |-> <<>>]
  ELSE LET in2 == IF Len(out) < Len(in) THEN Slice(in, 0, Len(out)) ELSE in
           s == <<sigma0, sigma1, sigma2, sigma3,
                  Uint32(key, 0), Uint32(key, 4), Uint32(key, 8), Uint32(key, 12),
                  Uint32(key, 16), Uint32(key, 20), Uint32(key, 24), Uint32(key, 28),
                  U32FromInt(initialCounter),
                  Uint32(nonce, 0), Uint32(nonce, 4), Uint32(nonce, 8)>>
       IN  With(chachaXORKeyStream(s, in2, out), LAMBDA r :
             [panic |-> "", out |-> SubSeq(r.out, 1, Len(out)),
              s |-> burnUint32s(r.s), partial |-> SubSeq(r.partial, 1, chachaBlockSize)])

(***************************************************************************)
(* The HS1 hash (hs1.go).  A hash context is                               *)
(*   [nhKey : 36 uint32, polyKey : 6 uint64, asuKey : 18 uint64].          *)
(***************************************************************************)
\* The return statement of polyStep, from the products m, h and l.
polySum(b, m, h, l) ==
  Add64(Add64(Add64(Add64(Add64(And64(l, m61), Shl64(h, 3)), Shr64(l, 61)), b),
              Shr64(m, 29)),
        And64(Shl64(m, 32), m61))

\* polyStep without the fold of the top three bits of the low product.
polyStepNoFold(a, b, k) ==
  polySum(b, Add64(Mul32(Hi32(a), Lo32(k)), Mul32(Hi32(k), Lo32(a))),
          Mul32(Hi32(a), Hi32(k)), And64(Mul32(Lo32(a), Lo32(k)), m61))

\* Return 63 bits congruent to ak+b mod (2^61-1).
polyStep(a, b, k) ==
  polySum(b, Add64(Mul32(Hi32(a), Lo32(k)), Mul32(Hi32(k), Lo32(a))),
          Mul32(Hi32(a), Hi32(k)), Mul32(Lo32(a), Lo32(k)))

\* polyFinalize without the conditional subtraction.
polyFinalizeNoSubtract(a) == Add64(And64(a, m61), Shr64(a, 61))

\* Reduce a mod (2^61-1) in constant time.
polyFinalize(a) ==
  LET a1 == Add64(And64(a, m61), Shr64(a, 61))
      d == Sub64(Sub64(m61, U64One), a1)
      \* uint64(int64(d) >> 63): all ones when the sign bit of d is set.
      mask == IF d[4] >= 32768 THEN <<65535, 65535, 65535, 65535>> ELSE U64Zero
  IN  Sub64(a1, And64(mask, m61))

\* asuHash(x, k[off:]) ; off is the Go (0-based) offset into asuKey.
asuHash(x, k, off) ==
  LET t == Add64(Add64(k[off + 1], Mul64x32(k[off + 2], Lo32(x))),
                 Mul64x32(k[off + 3], Hi32(x)))
  IN  Hi32(t)

\* The body of the NH loop for the 16 input bytes at byte offset off, with
\* loop index i (a key-word offset): nhRes with the two products of every
\* lane added.  The inner loop takes the lanes in pairs, j and j+1, with
\* kp := nhKey[i+j*4:]; lane j reads kp[0..3] and lane j+1 reads kp[4..7].
nhAdd(nhKey, in, off, i, nhRes) ==
  LET mp0 == Uint32(in, off)
      mp1 == Uint32(in, off + 4)
      mp2 == Uint32(in, off + 8)
      mp3 == Uint32(in, off + 12)
      j(lane) == lane - (lane % 2)
      kp(lane, n) == nhKey[i + (j(lane) * 4) + (4 * (lane % 2)) + n + 1]
  IN  SubSeq([l \in 1..hs1HashRounds |->
                Add64(Add64(nhRes[l],
                            Mul32(Add32(mp0, kp(l - 1, 0)), Add32(mp2, kp(l - 1, 2)))),
                      Mul32(Add32(mp1, kp(l - 1, 1)), Add32(mp3, kp(l - 1, 3))))],
             1, hs1HashRounds)

\* for i := 0; 4*i < nBytes; i += 4, over the bytes of in from byte offset off.
RECURSIVE nhLoop(_, _, _, _, _, _)
nhLoop(nhKey, in, off, nBytes, i, nhRes) ==
  IF 4 * i < nBytes
  THEN With(nhAdd(nhKey, in, off + (4 * i), i, nhRes), LAMBDA r :
         nhLoop(nhKey, in, off, nBytes, i + 4, r))
  ELSE nhRes

nhZero == <<U64Zero, U64Zero, U64Zero, U64Zero, U64Zero, U64Zero>>

\* accum[j] = polyStep(accum[j], nhRes[j]&m60, ctx.polyKey[j]) for every j.
polyAccum(ctx, nhRes, accum) ==
  SubSeq([j \in 1..hs1HashRounds |->
            polyStep(accum[j], And64(nhRes[j], m60), ctx.polyKey[j])],
         1, hs1HashRounds)

\* The reference hash step; len(in) MUST be a multiple of hs1NHLen.
RECURSIVE hashStepLoop(_, _, _, _, _)
hashStepLoop(ctx, in, off, inBytes, accum) ==
  IF inBytes > 0
  THEN With(polyAccum(ctx, nhLoop(ctx.nhKey, in, off, hs1NHLen, 0, nhZero), accum),
            LAMBDA a2 :
         hashStepLoop(ctx, in, off + hs1NHLen, inBytes - hs1NHLen, a2))
  ELSE accum

hashStepRef(ctx, in, accum) == hashStepLoop(ctx, in, 0, Len(in), accum)

(***************************************************************************)
(* The accelerated hash step, from its contract: for each 64-byte block    *)
(* and each lane t, NH is the sum over the four 4-word windows w of        *)
(*   (m[4w] + k[4w+4t]) * (m[4w+2] + k[4w+4t+2])                           *)
(*     + (m[4w+1] + k[4w+4t+1]) * (m[4w+3] + k[4w+4t+3]),                  *)
(* masked to 60 bits and folded into the lane's polynomial accumulator.    *)
(***************************************************************************)
RECURSIVE nhLane(_, _, _, _, _)
nhLane(nhKey, in, off, t, w) ==
  IF w = 4 THEN U64Zero
  ELSE LET m(n) == Uint32(in, off + (16 * w) + (4 * n))
           k(n) == nhKey[(4 * w) + (4 * t) + n + 1]
       IN  Add64(Add64(Mul32(Add32(m(0), k(0)), Add32(m(2), k(2))),
                       Mul32(Add32(m(1), k(1)), Add32(m(3), k(3)))),
                 nhLane(nhKey, in, off, t, w + 1))

RECURSIVE hashStepAVX2Loop(_, _, _, _)
hashStepAVX2Loop(ctx, in, blk, accum) ==
  IF (blk + 1) * hs1NHLen <= Len(in)
  THEN With([t \in 1..hs1HashRounds |->
               polyStep(accum[t],
                        And64(nhLane(ctx.nhKey, in, blk * hs1NHLen, t - 1, 0), m60),
                        ctx.polyKey[t])], LAMBDA a2 :
         hashStepAVX2Loop(ctx, in, blk + 1, a2))
  ELSE SubSeq(accum, 1, hs1HashRounds)

hashStepAVX2(ctx, in, accum) == hashStepAVX2Loop(ctx, in, 0, accum)

\* The call through the selected implementation pair.
hashStep(ctx, in, accum) ==
  IF hardwareAccelImpl = implAVX2BMI2
  THEN hashStepAVX2(ctx, in, accum)
  ELSE hashStepRef(ctx, in, accum)

\* hashFinalize(ctx, in, accum, result): the accumulator and the result
\* buffer as the call leaves them (24 bytes of result are written).
hashFinalize(ctx, in, accum, result) ==
  With(IF Len(in) > 0
       THEN polyAccum(ctx, nhLoop(ctx.nhKey, in, 0, Len(in), 0, nhZero), accum)
       ELSE accum, LAMBDA acc2 :
    With([j \in 0..(hs1HashRounds - 1) |->
            PutUint32(asuHash(polyFinalize(acc2[j + 1]), ctx.asuKey, 3 * j))], LAMBDA s :
      [accum |-> acc2,
       result |-> CopyAt(result, 0, s[0] \o s[1] \o s[2] \o s[3] \o s[4] \o s[5])]))

(***************************************************************************)
(* The SIV construction (hs1siv.go).  An aeadCtx is                        *)
(*   [chachaKey, hashCtx, sivAccum, sivLenBuf].                            *)
(***************************************************************************)
accumOnes == <<U64One, U64One, U64One, U64One, U64One, U64One>>
accumZero == <<U64Zero, U64Zero, U64Zero, U64Zero, U64Zero, U64Zero>>

\* var ctx aeadCtx
ctxZero ==
  [chachaKey |-> Zeros(chacha20KeySize),
   hashCtx |-> [nhKey |-> [i \in 1..nhKeyLen |-> U32Zero],
                polyKey |-> [i \in 1..hs1HashRounds |-> U64Zero],
                asuKey |-> [i \in 1..(hs1HashRounds * 3) |-> U64Zero]],
   sivAccum |-> accumZero,
   sivLenBuf |-> Zeros(16)]

\* XOR first n bytes of src into dst, then copy the next 32-n bytes.
xorCopyChaChaKey(dst, src) ==
  [i \in 1..Len(dst) |-> IF i <= 24 THEN Xor8(dst[i], src[i]) ELSE src[i]]

\* ctx.setup(userKey): the context, and the locals as the call leaves them.
setup(ctx, userKey) ==
  LET chachaNonce == [settings EXCEPT ![1] = Len(userKey) % 256]
      off1 == chacha20KeySize
      off2 == off1 + (4 * nhKeyLen)
      off3 == off2 + (8 * hs1HashRounds)
  IN  With(chacha20(userKey, chachaNonce, Zeros(stateSize), Zeros(stateSize), 0),
           LAMBDA r :
        [ctx |-> [ctx EXCEPT
                    !.chachaKey = Slice(r.out, 0, off1),
                    !.hashCtx = [nhKey |-> SubSeq([i \in 1..nhKeyLen |->
                                              Uint32(r.out, off1 + (4 * (i - 1)))],
                                              1, nhKeyLen),
                                 polyKey |-> SubSeq([i \in 1..hs1HashRounds |->
                                              And64(Uint64(r.out, off2 + (8 * (i - 1))), m60)],
                                              1, hs1HashRounds),
                                 asuKey |-> SubSeq([i \in 1..(hs1HashRounds * 3) |->
                                              Uint64(r.out, off3 + (8 * (i - 1)))],
                                              1, hs1HashRounds * 3)]],
         buf |-> r.out, chachaNonce |-> chachaNonce, s |-> r.s, partial |-> r.partial,
         panic |-> r.panic])

\* ctx.sivSetup(aBytes, mBytes)
\* A sivSetup that stores the message length before the AD length.
sivSetupSwapped(ctx, aBytes, mBytes) ==
  [ctx EXCEPT !.sivLenBuf = PutUint64(U64FromInt(mBytes)) \o PutUint64(U64FromInt(aBytes)),
              !.sivAccum = accumOnes]

sivSetup(ctx, aBytes, mBytes) ==
  [ctx EXCEPT !.sivLenBuf = PutUint64(U64FromInt(aBytes)) \o PutUint64(U64FromInt(mBytes)),
              !.sivAccum = accumOnes]

\* How far the NH loop, for i := 0; 4*i < nBytes; i += 4, reads: it takes
\* in[0..15] and then in = in[16:] (hashStep advances likewise), and its
\* last lane pair reads kp[7] of kp := nhKey[i+(hs1HashRounds-2)*4:].  The
\* number of input bytes and of key words from the start up to the last read.
RECURSIVE nhReach(_, _, _)
nhReach(nBytes, i, r) ==
  IF 4 * i < nBytes
  THEN nhReach(nBytes, i + 4, [in |-> (4 * i) + 16, key |-> i + ((hs1HashRounds - 2) * 4) + 8])
  ELSE r

\* for inBytes > 0 { NH over hs1NHLen bytes; inBytes -= hs1NHLen }
RECURSIVE hashStepReach(_, _, _)
hashStepReach(inBytes, off, r) ==
  IF inBytes > 0
  THEN hashStepReach(inBytes - hs1NHLen, off + hs1NHLen,
                     [in |-> off + nhReach(hs1NHLen, 0, r).in,
                      key |-> nhReach(hs1NHLen, 0, r).key])
  ELSE r

\* A call of hashStep or hashFinalize (f) on the bytes in, made to derive
\* the SIV or the message key (use): its input and how far it reads.
HashCall(f, use, in) ==
  [f |-> f, use |-> use, n |-> Len(in), in |-> IF f = "hashFinalize" THEN in ELSE <<>>,
   reach |-> IF f = "hashFinalize" THEN nhReach(Len(in), 0, [in |-> 0, key |-> 0])
             ELSE hashStepReach(Len(in), 0, [in |-> 0, key |-> 0])]

\* x & ^(hs1NHLen - 1) and (x + 15) & ^15 for a non-negative int x.
nhFloor(x) == x - (x % hs1NHLen)
pad16(x) == (x + 15) - ((x + 15) % 16)

\* ctx.sivHashAD(a): the context and the scratch block buf.
sivHashAD(ctx, a) ==
  LET aBytes == Len(a)
      nhMultiple == nhFloor(aBytes)
      buf == Copy(Zeros(hs1NHLen), Slice(a, nhMultiple, aBytes))
  IN  With(hashStep(ctx.hashCtx, Slice(a, 0, nhMultiple), ctx.sivAccum), LAMBDA acc1 :
        IF nhMultiple < aBytes
        THEN [ctx |-> [ctx EXCEPT !.sivAccum = hashStep(ctx.hashCtx, buf, acc1)],
              buf |-> buf,
              calls |-> <<HashCall("hashStep", "siv", Slice(a, 0, nhMultiple)),
                          HashCall("hashStep", "siv", buf)>>]
        ELSE [ctx |-> [ctx EXCEPT !.sivAccum = acc1], buf |-> Zeros(hs1NHLen),
              calls |-> <<HashCall("hashStep", "siv", Slice(a, 0, nhMultiple))>>])

\* ctx.sivGenerate(m, n, siv), reading the package-level block z (zero):
\* the context, the siv buffer, and the locals as the call leaves them.
sivGenerate(ctx, m, n, siv, z) ==
  LET nhMultiple == nhFloor(Len(m))
      mBytes == Len(m) - nhMultiple
      mBytesWithPadding == pad16(mBytes)
      buf0 == Copy(Zeros(hs1NHLen), Slice(m, nhMultiple, Len(m)))
      buf == IF mBytesWithPadding = hs1NHLen THEN buf0
             ELSE CopyAt(buf0, mBytesWithPadding, ctx.sivLenBuf)
  IN  With(hashStep(ctx.hashCtx, Slice(m, 0, nhMultiple), ctx.sivAccum), LAMBDA acc1 :
      With(IF mBytesWithPadding = hs1NHLen
           THEN hashFinalize(ctx.hashCtx, ctx.sivLenBuf,
                             hashStep(ctx.hashCtx, buf, acc1), Zeros(chacha20KeySize))
           ELSE hashFinalize(ctx.hashCtx, Slice(buf, 0, mBytesWithPadding + 16),
                             acc1, Zeros(chacha20KeySize)), LAMBDA fin :
      With(xorCopyChaChaKey(fin.result, ctx.chachaKey), LAMBDA chachaKey :
      With(chacha20(chachaKey, n, z, siv, 0), LAMBDA r :
        [ctx |-> [ctx EXCEPT !.sivAccum = fin.accum], siv |-> r.out, zero |-> z,
         chachaKey |-> chachaKey, buf |-> buf, s |-> r.s, partial |-> r.partial,
         calls |-> IF mBytesWithPadding = hs1NHLen
                   THEN <<HashCall("hashStep", "siv", Slice(m, 0, nhMultiple)),
                          HashCall("hashStep", "siv", buf),
                          HashCall("hashFinalize", "siv", ctx.sivLenBuf)>>
                   ELSE <<HashCall("hashStep", "siv", Slice(m, 0, nhMultiple)),
                          HashCall("hashFinalize", "siv",
                                   Slice(buf, 0, mBytesWithPadding + 16))>>]))))

\* A comparison that looks at the lengths only.
CompareLengths(x, y) == IF Len(x) = Len(y) THEN 1 ELSE 0

\* subtle.ConstantTimeCompare(x, y)
ConstantTimeCompare(x, y) ==
  IF Len(x) = Len(y) /\ \A i \in 1..Len(x) : x[i] = y[i] THEN 1 ELSE 0

(***************************************************************************)
(* Memory.  mem is a sequence of byte arrays; a slice is                   *)
(*   [a : array id (0 for a nil slice), o : offset, n : len, c : cap].     *)
(***************************************************************************)
nilSlice == [a |-> 0, o |-> 0, n |-> 0, c |-> 0]

\* The bytes a slice holds.
Bytes(m, sl) == IF sl.a = 0 \/ sl.n = 0 THEN <<>> ELSE SubSeq(m[sl.a], sl.o + 1, sl.o + sl.n)

\* m with the bytes b stored through the slice sl (Len(b) <= len(sl)).
Store(m, sl, b) ==
  IF sl.a = 0 \/ Len(b) = 0 THEN m
  ELSE [m EXCEPT ![sl.a] = CopyAt(@, sl.o, b)]

\* sl[lo:hi]
Reslice(sl, lo, hi) == [a |-> sl.a, o |-> sl.o + lo, n |-> hi - lo, c |-> sl.c - lo]

\* A sliceForAppend that grows the slice without carrying its bytes over.
sliceForAppendNoCopy(m, in, n) ==
  LET total == in.n + n
  IN  IF in.c >= total
      THEN IF total < 0 \/ in.n > total
           THEN [panic |-> "slice bounds out of range", head |-> nilSlice,
                 tail |-> nilSlice, mem |-> m]
           ELSE [panic |-> "", head |-> Reslice(in, 0, total),
                 tail |-> Reslice(in, in.n, total), mem |-> m]
      ELSE LET id == Len(m) + 1
               head == [a |-> id, o |-> 0, n |-> total, c |-> total]
           IN  [panic |-> "", head |-> head, tail |-> Reslice(head, in.n, total),
                mem |-> Append(m, Zeros(total))]

\* Shamelessly stolen from the Go runtime library.  Slicing below zero or
\* with low > high panics.
sliceForAppend(m, in, n) ==
  LET total == in.n + n
  IN  IF in.c >= total
      THEN IF total < 0 \/ in.n > total
           THEN [panic |-> "slice bounds out of range", head |-> nilSlice,
                 tail |-> nilSlice, mem |-> m]
           ELSE [panic |-> "", head |-> Reslice(in, 0, total),
                 tail |-> Reslice(in, in.n, total), mem |-> m]
      ELSE LET id == Len(m) + 1
               head == [a |-> id, o |-> 0, n |-> total, c |-> total]
           IN  [panic |-> "", head |-> head, tail |-> Reslice(head, in.n, total),
                mem |-> Append(m, Copy(Zeros(total), Bytes(m, in)))]

(***************************************************************************)
(* A call of Seal or Open, step by step.  The frame f of a call holds its  *)
(* arguments, its results and every local of the functions it runs, as     *)
(* they were last left; g = [mem, zero, aead] is the memory calls share.   *)
(* Each step yields the next position, the frame and the shared memory.    *)
(***************************************************************************)
ErrInvalidKeySize == "hs1siv: invalid key size"
ErrInvalidNonceSize == "hs1siv: invalid nonce size"
ErrOpen == "hs1siv: message authentication failed"

frameNew(op, ae, dst, nonce, src, ad) ==
  [op |-> op, ae |-> ae, dst |-> dst, nonce |-> nonce, src |-> src, ad |-> ad,
   ret |-> nilSlice, out |-> nilSlice, err |-> "", ok |-> FALSE, panic |-> "",
   ctx |-> ctxZero, setupBuf |-> Zeros(stateSize), chachaNonce |-> Zeros(chacha20NonceSize),
   accum |-> accumZero, siv |-> Zeros(hs1SIVLen), maybeSIV |-> Zeros(hs1SIVLen),
   nonceCopy |-> Zeros(NonceSize), chachaKey |-> Zeros(chacha20KeySize),
   sgChachaKey |-> Zeros(chacha20KeySize), sgBuf |-> Zeros(hs1NHLen),
   adBuf |-> Zeros(hs1NHLen), s |-> [i \in 1..chachaStateSize |-> U32Zero],
   partial |-> Zeros(chachaBlockSize),
   adDone |-> FALSE, written |-> 0, hashed |-> <<>>]

Res(p, f, g) == [pc |-> p, f |-> f, g |-> g]

\* What a chacha20 call leaves of its cipher state and scratch block in f.
withChaCha(f, r) ==
  [f EXCEPT !.s = IF r.s = <<>> THEN @ ELSE r.s,
            !.partial = IF r.partial = <<>> THEN @ ELSE r.partial]

\* An order of decrypt that writes the candidate plaintext before the
\* associated data is absorbed.
decryptBeforeAD == <<"dec_key", "dec_crypt", "dec_hashAD", "dec_sivGen", "dec_cmp">>

\* The order of the steps of decrypt after the key derivation.
decryptOrder == <<"dec_key", "dec_hashAD", "dec_crypt", "dec_sivGen", "dec_cmp">>

RECURSIVE IndexOf(_, _, _)
IndexOf(seq, x, i) ==
  IF i > Len(seq) THEN 0 ELSE IF seq[i] = x THEN i ELSE IndexOf(seq, x, i + 1)

\* The step of decrypt after step p; decrypt returns after the last.
decryptNext(p) ==
  LET i == IndexOf(decryptOrder, p, 1)
  IN  IF i < Len(decryptOrder) THEN decryptOrder[i + 1] ELSE "Open_finish"

\* An entry that wipes the key of the AEAD once the context is set up.
doEnterWipeKey(f, g, next) ==
  IF Len(f.nonce) # NonceSize
  THEN Res("panicked", [f EXCEPT !.panic = ErrInvalidNonceSize], g)
  ELSE With(setup(ctxZero, g.aead[f.ae].key), LAMBDA r :
         Res(next, withChaCha([f EXCEPT !.ctx = r.ctx, !.setupBuf = r.buf,
                                        !.chachaNonce = r.chachaNonce], r),
             [g EXCEPT !.aead[f.ae].key = Zeros(Len(@))]))

\* Seal/Open: the nonce check, var ctx aeadCtx, ctx.setup(ae.key).
doEnter(f, g, next) ==
  IF Len(f.nonce) # NonceSize
  THEN Res("panicked", [f EXCEPT !.panic = ErrInvalidNonceSize], g)
  ELSE With(setup(ctxZero, g.aead[f.ae].key), LAMBDA r :
         Res(next, withChaCha([f EXCEPT !.ctx = r.ctx, !.setupBuf = r.buf,
                                        !.chachaNonce = r.chachaNonce], r), g))

\* Seal: ret, out := sliceForAppend(dst, len(plaintext)+TagSize)
doSealSlice(f, g) ==
  LET r == sliceForAppend(g.mem, f.dst, f.src.n + TagSize)
  IN  IF r.panic # "" THEN Res("panicked", [f EXCEPT !.panic = r.panic], g)
      ELSE Res("enc_hashAD", [f EXCEPT !.ret = r.head, !.out = r.tail],
               [g EXCEPT !.mem = r.mem])

\* encrypt: accum, siv; ctx.sivSetup(len(a), len(m)); ctx.sivHashAD(a)
doEncHashAD(f, g) ==
  With(sivHashAD(sivSetup(f.ctx, f.ad.n, f.src.n), Bytes(g.mem, f.ad)), LAMBDA h :
    Res("enc_sivGen",
        [f EXCEPT !.accum = accumOnes, !.ctx = h.ctx, !.adBuf = h.buf, !.adDone = TRUE,
                  !.hashed = @ \o h.calls], g))

\* A SIV generation that leaves the SIV in the package-level zero block.
doEncSivGenDirty(f, g) ==
  With(sivGenerate(f.ctx, Bytes(g.mem, f.src), f.nonce, f.siv, g.zero), LAMBDA r :
    Res("enc_crypt",
        withChaCha([f EXCEPT !.ctx = r.ctx, !.siv = r.siv, !.sgChachaKey = r.chachaKey,
                             !.sgBuf = r.buf, !.hashed = @ \o r.calls], r),
        [g EXCEPT !.zero = r.siv]))

\* encrypt: ctx.sivGenerate(m, n, siv[:])
doEncSivGen(f, g) ==
  With(sivGenerate(f.ctx, Bytes(g.mem, f.src), f.nonce, f.siv, g.zero), LAMBDA r :
    Res("enc_crypt",
        withChaCha([f EXCEPT !.ctx = r.ctx, !.siv = r.siv, !.sgChachaKey = r.chachaKey,
                             !.sgBuf = r.buf, !.hashed = @ \o r.calls], r),
        [g EXCEPT !.zero = r.zero]))

\* encrypt: hashFinalize(siv) into chachaKey; xorCopyChaChaKey; chacha20(m -> c, 1)
doEncCrypt(f, g) ==
  With(hashFinalize(f.ctx.hashCtx, f.siv, f.accum, Zeros(chacha20KeySize)), LAMBDA hf :
  With(xorCopyChaChaKey(hf.result, f.ctx.chachaKey), LAMBDA chachaKey :
  With(chacha20(chachaKey, f.nonce, Bytes(g.mem, f.src), Bytes(g.mem, f.out), 1), LAMBDA r :
    Res("enc_tag",
        withChaCha([f EXCEPT !.accum = hf.accum, !.chachaKey = chachaKey,
                             !.written = f.src.n,
                             !.hashed = Append(@, HashCall("hashFinalize", "key", f.siv))], r),
        [g EXCEPT !.mem = Store(g.mem, f.out, r.out)]))))

\* encrypt: copy(c[mBytes:], siv[:]) ; Seal: return ret
doEncTag(f, g) ==
  Res("returned", f,
      [g EXCEPT !.mem = Store(g.mem, f.out, CopyAt(Bytes(g.mem, f.out), f.src.n, f.siv))])

\* Open: ret, out := sliceForAppend(dst, len(ciphertext)-TagSize)
doOpenSlice(f, g) ==
  LET r == sliceForAppend(g.mem, f.dst, f.src.n - TagSize)
  IN  IF r.panic # "" THEN Res("panicked", [f EXCEPT !.panic = r.panic], g)
      ELSE Res("dec_key", [f EXCEPT !.ret = r.head, !.out = r.tail],
               [g EXCEPT !.mem = r.mem])

\* decrypt: the length check; accum, siv, nonce; hashFinalize(siv) into
\* chachaKey; xorCopyChaChaKey
doDecKey(f, g) ==
  IF f.src.n < hs1SIVLen THEN Res("Open_finish", [f EXCEPT !.ok = FALSE], g)
  ELSE LET mBytes == f.src.n - hs1SIVLen
           siv == Copy(Zeros(hs1SIVLen), Bytes(g.mem, Reslice(f.src, mBytes, f.src.n)))
       IN  With(hashFinalize(f.ctx.hashCtx, siv, accumOnes, Zeros(chacha20KeySize)),
                LAMBDA hf :
             Res(decryptNext("dec_key"),
                 [f EXCEPT !.siv = siv, !.nonceCopy = Copy(Zeros(NonceSize), f.nonce),
                           !.accum = hf.accum,
                           !.chachaKey = xorCopyChaChaKey(hf.result, f.ctx.chachaKey),
                           !.hashed = Append(@, HashCall("hashFinalize", "key", siv))], g))

\* decrypt: ctx.sivSetup(len(a), len(m)); ctx.sivHashAD(a)
doDecHashAD(f, g) ==
  With(sivHashAD(sivSetup(f.ctx, f.ad.n, f.out.n), Bytes(g.mem, f.ad)), LAMBDA h :
    Res(decryptNext("dec_hashAD"),
        [f EXCEPT !.ctx = h.ctx, !.adBuf = h.buf, !.adDone = TRUE,
                  !.hashed = @ \o h.calls], g))

\* A decryption that starts the key stream at block 0.
doDecCryptBlock0(f, g) ==
  LET mBytes == f.src.n - hs1SIVLen
  IN  With(chacha20(f.chachaKey, f.nonceCopy, Bytes(g.mem, Reslice(f.src, 0, mBytes)),
                    Bytes(g.mem, f.out), 0), LAMBDA r :
        Res(decryptNext("dec_crypt"), withChaCha([f EXCEPT !.written = mBytes], r),
            [g EXCEPT !.mem = Store(g.mem, f.out, r.out)]))

\* decrypt: chacha20(chachaKey[:], nonce[:], c[:mBytes], m, 1)
doDecCrypt(f, g) ==
  LET mBytes == f.src.n - hs1SIVLen
  IN  With(chacha20(f.chachaKey, f.nonceCopy, Bytes(g.mem, Reslice(f.src, 0, mBytes)),
                    Bytes(g.mem, f.out), 1), LAMBDA r :
        Res(decryptNext("dec_crypt"), withChaCha([f EXCEPT !.written = mBytes], r),
            [g EXCEPT !.mem = Store(g.mem, f.out, r.out)]))

\* decrypt: ctx.sivGenerate(m, nonce[:], maybeSIV[:])
doDecSivGen(f, g) ==
  With(sivGenerate(f.ctx, Bytes(g.mem, f.out), f.nonceCopy, f.maybeSIV, g.zero), LAMBDA r :
    Res(decryptNext("dec_sivGen"),
        withChaCha([f EXCEPT !.ctx = r.ctx, !.maybeSIV = r.siv,
                             !.sgChachaKey = r.chachaKey, !.sgBuf = r.buf,
                             !.hashed = @ \o r.calls], r),
        [g EXCEPT !.zero = r.zero]))

\* decrypt: return subtle.ConstantTimeCompare(siv[:], maybeSIV[:]) == 1
doDecCmp(f, g) ==
  Res(decryptNext("dec_cmp"), [f EXCEPT !.ok = (ConstantTimeCompare(f.siv, f.maybeSIV) = 1)], g)

\* Open: if !ok { purge; ret = nil; err = ErrOpen } ; return ret, err
doOpenFinish(f, g) ==
  IF f.ok THEN Res("returned", f, g)
  ELSE IF f.out.n > 0
  THEN Res("returned", [f EXCEPT !.ret = nilSlice, !.err = ErrOpen],
           [g EXCEPT !.mem = Store(g.mem, f.out, Zeros(f.out.n))])
  ELSE Res("returned", [f EXCEPT !.err = ErrOpen], g)

\* The step at position p.
doStep(p, f, g) ==
  CASE p = "Seal" -> doEnter(f, g, "Seal_slice")
    [] p = "Seal_slice" -> doSealSlice(f, g)
    [] p = "enc_hashAD" -> doEncHashAD(f, g)
    [] p = "enc_sivGen" -> doEncSivGen(f, g)
    [] p = "enc_crypt" -> doEncCrypt(f, g)
    [] p = "enc_tag" -> doEncTag(f, g)
    [] p = "Open" -> doEnter(f, g, "Open_slice")
    [] p = "Open_slice" -> doOpenSlice(f, g)
    [] p = "dec_key" -> doDecKey(f, g)
    [] p = "dec_hashAD" -> doDecHashAD(f, g)
    [] p = "dec_crypt" -> doDecCrypt(f, g)
    [] p = "dec_sivGen" -> doDecSivGen(f, g)
    [] p = "dec_cmp" -> doDecCmp(f, g)
    [] p = "Open_finish" -> doOpenFinish(f, g)

\* A call run from position p to its end with no other call running.
RECURSIVE runAlone(_, _, _)
runAlone(p, f, g) ==
  IF p \in {"returned", "panicked"} THEN Res(p, f, g)
  ELSE With(doStep(p, f, g), LAMBDA r : runAlone(r.pc, r.f, r.g))

\* (*AEAD).NonceSize and (*AEAD).Overhead
AEADNonceSize(ae) == NonceSize
AEADOverhead(ae) == TagSize

(***************************************************************************)
(* The callers.  The keys, nonces, messages and associated data are the    *)
(* byte patterns of doTestKAT; a shape is the pair of the lengths of the   *)
(* plaintext and of the associated data of a call.                         *)
(***************************************************************************)
Pattern(mult, n) == SubSeq([i \in 1..n |-> (((i - 1) * mult) + 123) % 256], 1, n)

Key0 == Pattern(191, KeySize)
Nonce0 == Pattern(181, NonceSize)
W(n) == Pattern(197, n)
H(n) == Pattern(193, n)

Shapes ==
  << [p |-> 0, a |-> 0], [p |-> 5, a |-> 3], [p |-> 50, a |-> 64], [p |-> 70, a |-> 70],
     [p |-> 64, a |-> 5], [p |-> 130, a |-> 129], [p |-> 20, a |-> 100],
     [p |-> 104, a |-> 16] >>

\* How the caller provides dst.
SealDstKinds == {"nil", "empty", "prefix", "room", "inplace"}
OpenDstKinds == SealDstKinds \cup {"adalias"}

\* What happened to the ciphertext or the associated data on its way.
TamperKinds == {"none", "body", "tag", "ad", "short0", "short31"}

Prefix == <<161, 162, 163>>
Garbage(n) == [i \in 1..n |-> 238]
FlipAt(b, i) == [b EXCEPT ![i] = Xor8(@, 35)]
Max(x, y) == IF x > y THEN x ELSE y

\* The bytes Open is given of a ciphertext c and associated data a.
TamperC(c, tk) ==
  CASE tk = "body" -> FlipAt(c, Len(c) - TagSize)
    [] tk = "tag" -> FlipAt(c, (Len(c) - TagSize) + 1)
    [] tk = "short0" -> <<>>
    [] tk = "short31" -> SubSeq(c, 1, TagSize - 1)
    [] OTHER -> c
TamperA(a, tk) == IF tk = "ad" THEN FlipAt(a, Len(a)) ELSE a

Applicable(sh, tk) ==
  /\ tk = "body" => Shapes[sh].p > 0
  /\ tk = "ad" => Shapes[sh].a > 0

\* The caller's buffers for one call, allocated after the arrays of m:
\* the input (plaintext or ciphertext), the associated data a, and dst,
\* which holds n bytes of the result beyond what it has.
CallArgs(m, in, a, n, dk) ==
  LET base == Len(m)
      a1 == IF dk = "inplace" THEN in \o Garbage(Max(0, n - Len(in))) ELSE in
      a2 == IF dk = "adalias" THEN a \o Garbage(Max(0, n - Len(a))) ELSE a
      a3 == CASE dk = "prefix" -> Prefix
               [] dk = "room" -> Prefix \o Garbage(Max(0, n) + 2)
               [] OTHER -> <<>>
  IN  [mem |-> m \o <<a1, a2, a3>>,
       src |-> [a |-> base + 1, o |-> 0, n |-> Len(in), c |-> Len(a1)],
       ad |-> [a |-> base + 2, o |-> 0, n |-> Len(a), c |-> Len(a2)],
       dst |-> CASE dk = "nil" -> nilSlice
                 [] dk = "empty" -> [a |-> base + 3, o |-> 0, n |-> 0, c |-> 0]
                 [] dk = "prefix" -> [a |-> base + 3, o |-> 0, n |-> Len(Prefix), c |-> Len(a3)]
                 [] dk = "room" -> [a |-> base + 3, o |-> 0, n |-> Len(Prefix), c |-> Len(a3)]
                 [] dk = "inplace" -> [a |-> base + 1, o |-> 0, n |-> 0, c |-> Len(a1)]
                 [] dk = "adalias" -> [a |-> base + 2, o |-> 0, n |-> 0, c |-> Len(a2)]]

noFrame == [op |-> "none"]
noGhost == [op |-> "none"]
noLog == [sh |-> 0, ct |-> <<>>, alone |-> <<>>]
noFn == [f |-> "none"]

\* The memory calls share, as a step takes it.
G == [mem |-> mem, zero |-> zero, aead |-> aead]

\* What a caller sees of a call that ended at r.
Outcome(r) ==
  [pc |-> r.pc, panic |-> r.f.panic, err |-> r.f.err, isNil |-> (r.f.ret.a = 0),
   bytes |-> Bytes(r.g.mem, r.f.ret)]

\* The bookkeeping of the callers: what a call was given (dst0, in, a) and
\* what was sealed (p, under shape sh).
Ghost(op, sh, dk, tk, args) ==
  [op |-> op, sh |-> sh, dk |-> dk, tk |-> tk,
   dst0 |-> Bytes(args.mem, args.dst), in |-> Bytes(args.mem, args.src),
   a |-> Bytes(args.mem, args.ad), p |-> W(Shapes[sh].p)]

\* The outcome of the call op(nil, Nonce0, in, a) run from the memory g with
\* no other call running.
Alone(op, in, a, g) ==
  LET args == CallArgs(<<>>, in, a, 0, "nil")
  IN  Outcome(runAlone(op, frameNew(op, 1, args.dst, Nonce0, args.src, args.ad),
                       [g EXCEPT !.mem = args.mem]))

\* Where calls overlap: what each kind of call on the ciphertext ct of shape
\* sh gives when it runs alone.
AloneOutcomes(sh, ct) ==
  [op \in {"Seal", "Open"} |->
     [tk \in IF op = "Seal" THEN {"none"} ELSE {"none", "tag"} |->
        Alone(op, IF op = "Seal" THEN W(Shapes[sh].p) ELSE TamperC(ct, tk),
              H(Shapes[sh].a), G)]]

Enter(t, op, i, sh, dk, tk, nonce, args) ==
  LET f == frameNew(op, i, args.dst, nonce, args.src, args.ad)
  IN  /\ pc' = [pc EXCEPT ![t] = op]
      /\ fr' = [fr EXCEPT ![t] = f]
      /\ mem' = args.mem
      /\ gh' = [gh EXCEPT ![t] = Ghost(op, sh, dk, tk, args)]
      /\ ncalls' = ncalls + 1
      /\ UNCHANGED <<cpu, isHardwareAccelerated, hardwareAccelImpl, zero, aead, log, fn>>

\* New(key)
New(t, key) ==
  /\ pc[t] = "idle"
  /\ IF Len(key) # KeySize
     THEN /\ pc' = [pc EXCEPT ![t] = "panicked"]
          /\ fr' = [fr EXCEPT ![t] = [op |-> "New", panic |-> ErrInvalidKeySize]]
          /\ gh' = [gh EXCEPT ![t] = [op |-> "New"]]
          /\ UNCHANGED aead
     ELSE /\ aead' = Append(aead, [key |-> Copy(Zeros(Len(key)), key)])
          /\ UNCHANGED <<pc, fr, gh>>
  /\ UNCHANGED <<cpu, isHardwareAccelerated, hardwareAccelImpl, zero, mem, log, ncalls, fn>>

\* A caller calls aead[i].Seal(dst, nonce, W[:p], H[:a]) for shape sh.
CallSeal(t, i, sh, dk, nonce) ==
  /\ pc[t] = "idle"
  /\ i \in 1..Len(aead)
  /\ log.sh \in {0, sh}
  /\ Enter(t, "Seal", i, sh, dk, "none", nonce,
           CallArgs(mem, W(Shapes[sh].p), H(Shapes[sh].a), Shapes[sh].p + TagSize, dk))

\* A caller calls aead[i].Open(dst, nonce, c, a) with what reached it of
\* the ciphertext sealed earlier and its associated data.
CallOpen(t, i, dk, tk) ==
  /\ pc[t] = "idle"
  /\ i \in 1..Len(aead)
  /\ log.sh # 0
  /\ Applicable(log.sh, tk)
  /\ Enter(t, "Open", i, log.sh, dk, tk, Nonce0,
           CallArgs(mem, TamperC(log.ct, tk), TamperA(H(Shapes[log.sh].a), tk),
                    Shapes[log.sh].p, dk))

\* One step of the call of caller t.
Advance(t, r) ==
  /\ pc' = [pc EXCEPT ![t] = r.pc]
  /\ fr' = [fr EXCEPT ![t] = r.f]
  /\ mem' = r.g.mem
  /\ zero' = r.g.zero
  /\ aead' = r.g.aead
  /\ UNCHANGED <<cpu, isHardwareAccelerated, hardwareAccelImpl, gh, log, ncalls, fn>>

SealEnter(t) == pc[t] = "Seal" /\ Advance(t, doEnter(fr[t], G, "Seal_slice"))
SealSlice(t) == pc[t] = "Seal_slice" /\ Advance(t, doSealSlice(fr[t], G))
EncHashAD(t) == pc[t] = "enc_hashAD" /\ Advance(t, doEncHashAD(fr[t], G))
EncSivGen(t) == pc[t] = "enc_sivGen" /\ Advance(t, doEncSivGen(fr[t], G))
EncCrypt(t) == pc[t] = "enc_crypt" /\ Advance(t, doEncCrypt(fr[t], G))
EncTag(t) == pc[t] = "enc_tag" /\ Advance(t, doEncTag(fr[t], G))
OpenEnter(t) == pc[t] = "Open" /\ Advance(t, doEnter(fr[t], G, "Open_slice"))
OpenSlice(t) == pc[t] = "Open_slice" /\ Advance(t, doOpenSlice(fr[t], G))
DecKey(t) == pc[t] = "dec_key" /\ Advance(t, doDecKey(fr[t], G))
DecHashAD(t) == pc[t] = "dec_hashAD" /\ Advance(t, doDecHashAD(fr[t], G))
DecCrypt(t) == pc[t] = "dec_crypt" /\ Advance(t, doDecCrypt(fr[t], G))
DecSivGen(t) == pc[t] = "dec_sivGen" /\ Advance(t, doDecSivGen(fr[t], G))
DecCmp(t) == pc[t] = "dec_cmp" /\ Advance(t, doDecCmp(fr[t], G))
OpenFinish(t) == pc[t] = "Open_finish" /\ Advance(t, doOpenFinish(fr[t], G))

Step(t) ==
  \/ SealEnter(t) \/ SealSlice(t) \/ EncHashAD(t) \/ EncSivGen(t) \/ EncCrypt(t) \/ EncTag(t)
  \/ OpenEnter(t) \/ OpenSlice(t) \/ DecKey(t) \/ DecHashAD(t) \/ DecCrypt(t)
  \/ DecSivGen(t) \/ DecCmp(t) \/ OpenFinish(t)

\* The bytes a returned Seal appended to dst.
Appended(t) ==
  LET b == Bytes(mem, fr[t].ret) IN SubSeq(b, Len(gh[t].dst0) + 1, Len(b))

\* The arrays the slices of a call point into.
Owned(f) ==
  IF f.op \in {"Seal", "Open"} THEN {f.src.a, f.ad.a, f.dst.a, f.ret.a, f.out.a} ELSE {}

\* The caller takes the result (or recovers from the panic) and drops its
\* buffers; the first ciphertext sealed is kept for the calls to come.
Finish(t) ==
  /\ pc[t] \in {"returned", "panicked"}
  /\ pc' = [pc EXCEPT ![t] = "idle"]
  /\ fr' = [fr EXCEPT ![t] = noFrame]
  /\ gh' = [gh EXCEPT ![t] = noGhost]
  /\ mem' = IF \A u \in DOMAIN pc : u = t \/ pc[u] = "idle" THEN <<>>
            ELSE [k \in 1..Len(mem) |-> IF k \in Owned(fr[t]) THEN <<>> ELSE mem[k]]
  /\ log' = IF pc[t] = "returned" /\ fr[t].op = "Seal" /\ log.sh = 0
            THEN [sh |-> gh[t].sh, ct |-> Appended(t),
                  alone |-> IF Len(pc) > 1 THEN AloneOutcomes(gh[t].sh, Appended(t)) ELSE <<>>]
            ELSE log
  /\ UNCHANGED <<cpu, isHardwareAccelerated, hardwareAccelImpl, zero, aead, ncalls, fn>>

(***************************************************************************)
(* The host: which build of the package runs on it (the amd64 assembly     *)
(* build or the portable one) and what its CPUID leaves and XCR0 report.   *)
(***************************************************************************)
osXsaveBit == 134217728
avx2Bit == 32
bmi2Bit == 256

\* regs&bit != 0, for a bit that is a power of two.
HasBit(regs, bit) == (regs \div bit) % 2 = 1

Hosts ==
  [asm : BOOLEAN, maxLeaf : {1, 7}, ecx1 : {0, osXsaveBit}, xcr0 : {3, 7},
   ebx7 : {0, avx2Bit, bmi2Bit, avx2Bit + bmi2Bit}]

supportsAVX2BMI2(c) ==
  IF c.maxLeaf < 7 THEN FALSE
  ELSE IF ~HasBit(c.ecx1, osXsaveBit) THEN FALSE
  ELSE IF ~(HasBit(c.xcr0, 2) /\ HasBit(c.xcr0, 4)) THEN FALSE
  ELSE HasBit(c.ebx7, avx2Bit) /\ HasBit(c.ebx7, bmi2Bit)

\* The package-level variables as declared, before init() runs.
packageVars == [isHardwareAccelerated |-> FALSE, hardwareAccelImpl |-> implReference]

forceDisableHardwareAcceleration ==
  [isHardwareAccelerated |-> FALSE, hardwareAccelImpl |-> implReference]

\* initHardwareAcceleration without the probe: the assembly build always
\* selects AVX2.
initHardwareAccelerationNoProbe(hw, c) ==
  IF c.asm
  THEN [isHardwareAccelerated |-> TRUE, hardwareAccelImpl |-> implAVX2BMI2]
  ELSE forceDisableHardwareAcceleration

\* The assembly build selects AVX2 when the probe reports support and
\* otherwise leaves the selection hw as it is; the portable build disables.
initHardwareAcceleration(hw, c) ==
  IF c.asm
  THEN IF supportsAVX2BMI2(c)
       THEN [isHardwareAccelerated |-> TRUE, hardwareAccelImpl |-> implAVX2BMI2]
       ELSE hw
  ELSE forceDisableHardwareAcceleration

IsHardwareAccelerated == isHardwareAccelerated

\* A host whose probe reports support, and a host running the portable build.
hostAVX2 ==
  [asm |-> TRUE, maxLeaf |-> 7, ecx1 |-> osXsaveBit, xcr0 |-> 7, ebx7 |-> avx2Bit + bmi2Bit]
hostPortable ==
  [asm |-> FALSE, maxLeaf |-> 7, ecx1 |-> osXsaveBit, xcr0 |-> 7, ebx7 |-> avx2Bit + bmi2Bit]

\* init(): initHardwareAcceleration() on one of the hosts.
InitPackageOn(hosts) ==
  /\ cpu \in hosts
  /\ isHardwareAccelerated = initHardwareAcceleration(packageVars, cpu).isHardwareAccelerated
  /\ hardwareAccelImpl = initHardwareAcceleration(packageVars, cpu).hardwareAccelImpl
  /\ zero = Zeros(hs1SIVLen)
  /\ mem = <<>>

InitPackage == InitPackageOn({hostAVX2, hostPortable})

(***************************************************************************)
(* One caller: it creates an AEAD, seals a message, and seals it again or  *)
(* opens what reaches it of the ciphertext.                                *)
(***************************************************************************)
MaxCalls == 2

\* The goroutines that call into the package: one, or two at the same time.
OneCaller == <<"idle">>
TwoCallers == <<"idle", "idle">>

Init ==
  /\ InitPackage
  /\ fn = noFn
  /\ aead = <<>>
  /\ pc = OneCaller
  /\ fr = <<noFrame>>
  /\ gh = <<noGhost>>
  /\ log = noLog
  /\ ncalls = 0

Next ==
  \E t \in DOMAIN OneCaller :
    \/ (aead = <<>> /\ \E key \in {Key0, SubSeq(Key0, 1, KeySize - 1)} : New(t, key))
    \/ (ncalls < MaxCalls /\ \E sh \in 1..Len(Shapes), dk \in SealDstKinds :
          CallSeal(t, 1, sh, dk, Nonce0))
    \/ (ncalls < MaxCalls /\ CallSeal(t, 1, 1, "nil", SubSeq(Nonce0, 1, NonceSize - 1)))
    \/ (ncalls < MaxCalls /\ \E dk \in OpenDstKinds, tk \in TamperKinds :
          /\ tk \in {"short0", "short31"} => dk \in {"nil", "prefix"}
          /\ CallOpen(t, 1, dk, tk))
    \/ Step(t)
    \/ Finish(t)

Spec == Init /\ [][Next]_vars

(***************************************************************************)
(* One caller with a history: it creates AEADs from the same key and       *)
(* seals and opens on any of them, valid and forged ciphertexts alike.     *)
(***************************************************************************)
MaxInstances == 2
MaxHistory == 3

NextHist ==
  \E t \in DOMAIN OneCaller :
    \/ (Len(aead) < MaxInstances /\ New(t, Key0))
    \/ (ncalls < MaxHistory /\ \E i \in 1..Len(aead), sh \in {2, 4} :
          CallSeal(t, i, sh, "nil", Nonce0))
    \/ (ncalls < MaxHistory /\ \E i \in 1..Len(aead), tk \in {"none", "tag"} :
          CallOpen(t, i, "nil", tk))
    \/ Step(t)
    \/ Finish(t)

SpecHist == Init /\ [][NextHist]_vars

(***************************************************************************)
(* Two callers using one AEAD at the same time, their steps interleaved.   *)
(* Caller 1 seals a first message with no other call running and starts a  *)
(* second call; caller 2 starts a call at any moment from then on.  Each   *)
(* of these seals the message again or opens what reaches it of the first  *)
(* ciphertext.  (With the callers exchanged the runs are the same.)        *)
(***************************************************************************)
InitConc ==
  /\ InitPackage
  /\ fn = noFn
  /\ aead = <<[key |-> Key0]>>
  /\ pc = TwoCallers
  /\ fr = <<noFrame, noFrame>>
  /\ gh = <<noGhost, noGhost>>
  /\ log = noLog
  /\ ncalls = 0

\* The caller that starts the next call.
Turn == IF ncalls < Len(pc) THEN 1 ELSE 2

NextConc ==
  \E t \in DOMAIN TwoCallers :
    \/ (/\ ncalls <= Len(pc) /\ t = Turn
        /\ log.sh = 0 => \A u \in DOMAIN pc : pc[u] = "idle"
        /\ CallSeal(t, 1, 2, "nil", Nonce0))
    \/ (/\ ncalls <= Len(pc) /\ t = Turn
        /\ \E tk \in {"none", "tag"} : CallOpen(t, 1, "nil", tk))
    \/ Step(t)
    \/ Finish(t)

SpecConc == InitConc /\ [][NextConc]_vars

(***************************************************************************)
(* The two implementations of the key stream and of the hash step, each    *)
(* applied to the same arguments.  fn holds the arguments and, once the    *)
(* functions have run, what each of them left.                             *)
(***************************************************************************)
\* The cipher state chacha20 builds from Key0, Nonce0 and a block counter.
KeyStreamState(counter) ==
  <<sigma0, sigma1, sigma2, sigma3,
    Uint32(Key0, 0), Uint32(Key0, 4), Uint32(Key0, 8), Uint32(Key0, 12),
    Uint32(Key0, 16), Uint32(Key0, 20), Uint32(Key0, 24), Uint32(Key0, 28),
    counter, Uint32(Nonce0, 0), Uint32(Nonce0, 4), Uint32(Nonce0, 8)>>

\* A hash context whose keys are pattern bytes, as setup loads them.
HashCtx ==
  [nhKey |-> SubSeq([i \in 1..nhKeyLen |-> Uint32(W(4 * nhKeyLen), 4 * (i - 1))], 1, nhKeyLen),
   polyKey |-> SubSeq([i \in 1..hs1HashRounds |->
                 And64(Uint64(H(8 * hs1HashRounds), 8 * (i - 1)), m60)], 1, hs1HashRounds),
   asuKey |-> [i \in 1..(hs1HashRounds * 3) |-> U64Zero]]

\* Accumulators: as sivSetup leaves them, and after a hash step.
Accums(k) ==
  IF k = 0 THEN accumOnes ELSE hashStepRef(HashCtx, Pattern(k, hs1NHLen), accumOnes)

KeyStreamArgs ==
  {[f |-> "chachaXORKeyStream", done |-> FALSE, counter |-> c, n |-> n, spare |-> e] :
     c \in {<<0, 0>>, <<1, 0>>, <<65535, 65535>>},
     n \in {0, 1, 63, 64, 65, 128, 130},
     e \in {0, 5, 64}}

HashStepArgs ==
  {[f |-> "hashStep", done |-> FALSE, mult |-> m, n |-> n, k |-> k] :
     m \in {0, 1, 193, 197, 255}, n \in {0, 64, 128, 192}, k \in {0, 181, 191}}

InitEquiv ==
  /\ InitPackage
  /\ fn \in KeyStreamArgs \cup HashStepArgs
  /\ aead = <<>>
  /\ pc = OneCaller
  /\ fr = <<noFrame>>
  /\ gh = <<noGhost>>
  /\ log = noLog
  /\ ncalls = 0

\* What a key-stream function leaves of the state and of the out buffer.
Left(r) == [s |-> r.s, out |-> r.out]

ApplyKeyStream ==
  /\ fn.f = "chachaXORKeyStream" /\ ~fn.done
  /\ LET s == KeyStreamState(fn.counter)
         in == W(fn.n)
         out == Garbage(fn.n + fn.spare)
     IN  fn' = [f |-> fn.f, done |-> TRUE, counter |-> fn.counter, n |-> fn.n,
                spare |-> fn.spare,
                ref |-> Left(chachaXORKeyStreamRef(s, in, out)),
                acc |-> Left(chachaXORKeyStreamAVX2(s, in, out))]
  /\ UNCHANGED <<cpu, isHardwareAccelerated, hardwareAccelImpl, zero, aead, mem, pc, fr,
                 gh, log, ncalls>>

ApplyHashStep ==
  /\ fn.f = "hashStep" /\ ~fn.done
  /\ fn' = With(Accums(fn.k), LAMBDA accum :
             [f |-> fn.f, done |-> TRUE, mult |-> fn.mult, n |-> fn.n, k |-> fn.k,
              ref |-> hashStepRef(HashCtx, Pattern(fn.mult, fn.n), accum),
              acc |-> hashStepAVX2(HashCtx, Pattern(fn.mult, fn.n), accum)])
  /\ UNCHANGED <<cpu, isHardwareAccelerated, hardwareAccelImpl, zero, aead, mem, pc, fr,
                 gh, log, ncalls>>

NextEquiv == ApplyKeyStream \/ ApplyHashStep

SpecEquiv == InitEquiv /\ [][NextEquiv]_vars

(***************************************************************************)
(* Properties.                                                             *)
(***************************************************************************)
Callers == DOMAIN pc
Ended(t) == pc[t] \in {"returned", "panicked"}
IsOpen(t) == gh[t].op = "Open"
IsSeal(t) == gh[t].op = "Seal"
Forged(t) == IsOpen(t) /\ gh[t].tk \in {"body", "tag", "ad"}
Short(t) == IsOpen(t) /\ gh[t].tk \in {"short0", "short31"}
Returned(t) == Bytes(mem, fr[t].ret)

\* C1 (round trip): an Open that is given the nonce, the output of Seal and
\* the associated data unchanged ends by returning a nil error and dst
\* followed by exactly the plaintext that was sealed.
RoundTrip ==
  \A t \in Callers :
    (Ended(t) /\ IsOpen(t) /\ gh[t].tk = "none") =>
      /\ pc[t] = "returned"
      /\ fr[t].err = ""
      /\ Returned(t) = gh[t].dst0 \o gh[t].p

RoundTripWitness ==
  \E t \in Callers :
    /\ pc[t] = "returned" /\ IsOpen(t) /\ gh[t].tk = "none"
    /\ Len(gh[t].p) > hs1NHLen /\ Len(gh[t].a) > hs1NHLen
    /\ fr[t].err = "" /\ Returned(t) = gh[t].dst0 \o gh[t].p

\* C2 (tamper detection): an Open that is given the ciphertext with one
\* byte of its body or of its tag changed, or the associated data with one
\* byte changed, ends by returning ErrOpen, and what it returns holds no
\* byte beyond those of dst.
TamperDetected ==
  \A t \in Callers :
    (Ended(t) /\ Forged(t)) =>
      /\ pc[t] = "returned"
      /\ fr[t].err = ErrOpen
      /\ Len(Returned(t)) <= Len(gh[t].dst0)

TamperDetectedWitness ==
  /\ \E t \in Callers :
       /\ pc[t] = "returned" /\ gh[t].op = "Open" /\ gh[t].tk = "ad"
       /\ Len(gh[t].p) > 0 /\ fr[t].written = Len(gh[t].p)
       /\ fr[t].err = ErrOpen /\ Returned(t) = <<>>

\* C3 (failure result): an Open of a ciphertext of at least 32 bytes that
\* fails authentication returns ErrOpen and a nil slice, whatever dst is,
\* and the region the candidate plaintext was written to holds zeros.
FailureReturnsNil ==
  \A t \in Callers :
    (Ended(t) /\ Forged(t)) =>
      /\ pc[t] = "returned"
      /\ fr[t].err = ErrOpen
      /\ fr[t].ret = nilSlice
      /\ Bytes(mem, fr[t].out) = Zeros(fr[t].out.n)

\* C4 (short ciphertext): an Open of a ciphertext shorter than 32 bytes
\* returns ErrOpen without a panic, and neither hashes nor decrypts.
ShortCiphertextRejected ==
  \A t \in Callers :
    (Ended(t) /\ Short(t)) =>
      /\ pc[t] = "returned"
      /\ fr[t].err = ErrOpen
      /\ ~fr[t].adDone
      /\ fr[t].written = 0

\* C5 (Seal appends): what Seal returns is len(dst) + len(P) + 32 bytes
\* long, starts with the bytes of dst unchanged and ends with the 32-byte
\* SIV; Overhead() is 32 and NonceSize() is 12 for every AEAD.
SealAppends ==
  /\ \A t \in Callers :
       (Ended(t) /\ IsSeal(t) /\ Len(fr[t].nonce) = NonceSize) =>
         /\ pc[t] = "returned"
         /\ Len(Returned(t)) = (Len(gh[t].dst0) + Len(gh[t].p)) + 32
         /\ SubSeq(Returned(t), 1, Len(gh[t].dst0)) = gh[t].dst0
         /\ SubSeq(Returned(t), (Len(gh[t].dst0) + Len(gh[t].p)) + 1, Len(Returned(t)))
              = fr[t].siv
  /\ \A i \in 1..Len(aead) : AEADOverhead(aead[i]) = 32 /\ AEADNonceSize(aead[i]) = 12

SealAppendsWitness ==
  \E t \in Callers :
    /\ pc[t] = "returned" /\ IsSeal(t) /\ gh[t].dk = "prefix"
    /\ Len(gh[t].p) > 0
    /\ Len(Returned(t)) = (Len(Prefix) + Len(gh[t].p)) + 32
    /\ SubSeq(Returned(t), 1, Len(Prefix)) = Prefix

\* C6 (determinism): a Seal of the key, nonce, plaintext and associated
\* data that were sealed before appends the same bytes as the first time,
\* whichever calls came in between and whichever AEAD of the key it is
\* called on.
SealDeterministic ==
  \A t \in Callers :
    (pc[t] = "returned" /\ IsSeal(t) /\ log.sh = gh[t].sh) => Appended(t) = log.ct

SealDeterministicWitness ==
  \E t \in Callers :
    /\ pc[t] = "returned" /\ IsSeal(t) /\ log.sh = gh[t].sh
    /\ fr[t].ae = 2 /\ ncalls = 3
    /\ Appended(t) = log.ct

\* C7 (concurrent use): while calls on one AEAD overlap, the key of the
\* AEAD stays as New stored it, and every call that ends has the outcome
\* (return or panic, error, result bytes) of the same call run alone.
ConcurrentSafe ==
  /\ \A i \in 1..Len(aead) : aead[i].key = Key0
  /\ \A t \in Callers :
       (Ended(t) /\ log.sh # 0) =>
         Outcome([pc |-> pc[t], f |-> fr[t], g |-> G]) = log.alone[gh[t].op][gh[t].tk]

ConcurrentSafeWitness ==
  /\ pc[1] = "returned" /\ IsSeal(1) /\ log.sh # 0
  /\ Appended(1) = log.ct
  /\ pc[2] = "dec_sivGen" /\ gh[2].tk = "none"

\* C8 (secret zeroing): when Seal or Open returns, the locals that held
\* secrets during the call hold zeros: the key-schedule buffer and the
\* derived keys of setup, the hash accumulators, the derived ChaCha keys,
\* the scratch blocks and the cipher state.
SecretsZeroed ==
  \A t \in Callers :
    (pc[t] = "returned" /\ gh[t].op \in {"Seal", "Open"}) =>
      /\ fr[t].setupBuf = Zeros(stateSize)
      /\ fr[t].ctx = ctxZero
      /\ fr[t].accum = accumZero
      /\ fr[t].chachaKey = Zeros(chacha20KeySize)
      /\ fr[t].sgChachaKey = Zeros(chacha20KeySize)
      /\ fr[t].sgBuf = Zeros(hs1NHLen)
      /\ fr[t].adBuf = Zeros(hs1NHLen)
      /\ fr[t].partial = Zeros(chachaBlockSize)
      /\ fr[t].s = [i \in 1..chachaStateSize |-> U32Zero]

\* C10 (ordering in Open): no byte of candidate plaintext is written before
\* all of the associated data is absorbed, and an Open whose output buffer
\* is the associated data's or the ciphertext's own returns the bytes and
\* the error of the same Open on buffers of its own.
OpenOrdering ==
  \A t \in Callers :
    /\ (pc[t] # "idle" /\ IsOpen(t) /\ fr[t].written > 0) => fr[t].adDone
    /\ (pc[t] = "returned" /\ IsOpen(t) /\ gh[t].dk \in {"inplace", "adalias"}) =>
         LET own == Alone("Open", gh[t].in, gh[t].a, G)
         IN  /\ own.pc = "returned"
             /\ fr[t].err = own.err
             /\ Returned(t) = own.bytes

OpenOrderingWitness ==
  \E t \in Callers :
    /\ pc[t] = "returned" /\ IsOpen(t) /\ gh[t].dk = "adalias" /\ gh[t].tk = "none"
    /\ Len(gh[t].a) > hs1NHLen /\ Len(gh[t].p) > hs1NHLen
    /\ fr[t].adDone /\ fr[t].written = Len(gh[t].p)
    /\ fr[t].err = "" /\ Returned(t) = gh[t].p

\* C9 (implementation equivalence): on the same state and buffers the
\* accelerated key-stream function leaves the out bytes and the state that
\* chachaXORKeyStreamRef leaves, and on the same context, input and
\* accumulator the accelerated hash step leaves the accumulator that the
\* reference hash step leaves.
BackEndsAgree == (fn.f # "none" /\ fn.done) => fn.acc = fn.ref

(***************************************************************************)
(* Back-end selection on its own: after init(), a caller (the tests do)    *)
(* calls initHardwareAcceleration, forceDisableHardwareAcceleration and    *)
(* IsHardwareAccelerated in any order, on any host.  fn holds the call     *)
(* just made, the calls before it and what IsHardwareAccelerated returned. *)
(***************************************************************************)
MaxSelections == 3

selection ==
  [isHardwareAccelerated |-> isHardwareAccelerated, hardwareAccelImpl |-> hardwareAccelImpl]

Called(f, ret) == [f |-> f, before |-> Append(fn.before, fn.f), ret |-> ret]

InitSelect ==
  /\ InitPackageOn(Hosts)
  /\ fn = [f |-> "init", before |-> <<>>, ret |-> FALSE]
  /\ aead = <<>>
  /\ pc = OneCaller
  /\ fr = <<noFrame>>
  /\ gh = <<noGhost>>
  /\ log = noLog
  /\ ncalls = 0

CallInitHardwareAcceleration ==
  /\ Len(fn.before) < MaxSelections
  /\ isHardwareAccelerated' = initHardwareAcceleration(selection, cpu).isHardwareAccelerated
  /\ hardwareAccelImpl' = initHardwareAcceleration(selection, cpu).hardwareAccelImpl
  /\ fn' = Called("initHardwareAcceleration", FALSE)
  /\ UNCHANGED <<cpu, zero, aead, mem, pc, fr, gh, log, ncalls>>

CallForceDisableHardwareAcceleration ==
  /\ Len(fn.before) < MaxSelections
  /\ isHardwareAccelerated' = forceDisableHardwareAcceleration.isHardwareAccelerated
  /\ hardwareAccelImpl' = forceDisableHardwareAcceleration.hardwareAccelImpl
  /\ fn' = Called("forceDisableHardwareAcceleration", FALSE)
  /\ UNCHANGED <<cpu, zero, aead, mem, pc, fr, gh, log, ncalls>>

CallIsHardwareAccelerated ==
  /\ Len(fn.before) < MaxSelections
  /\ fn' = Called("IsHardwareAccelerated", IsHardwareAccelerated)
  /\ UNCHANGED <<cpu, isHardwareAccelerated, hardwareAccelImpl, zero, aead, mem, pc, fr,
                 gh, log, ncalls>>

NextSelect ==
  \/ CallInitHardwareAcceleration
  \/ CallForceDisableHardwareAcceleration
  \/ CallIsHardwareAccelerated

SpecSelect == InitSelect /\ [][NextSelect]_vars

\* C11: after any calls of initHardwareAcceleration and
\* forceDisableHardwareAcceleration, IsHardwareAccelerated() returns true
\* exactly when the selected implementation is the accelerated one; the
\* accelerated one is selected only on a host whose capability probe
\* reported support; after forceDisableHardwareAcceleration, and at start-up
\* on a host without support, the reference implementation is selected and
\* IsHardwareAccelerated() is false.
BackEndSelection ==
  /\ IsHardwareAccelerated <=> hardwareAccelImpl = implAVX2BMI2
  /\ fn.f = "IsHardwareAccelerated" => (fn.ret <=> hardwareAccelImpl = implAVX2BMI2)
  /\ hardwareAccelImpl = implAVX2BMI2 => cpu.asm /\ supportsAVX2BMI2(cpu)
  /\ hardwareAccelImpl \in {implAVX2BMI2, implReference}
  /\ fn.f = "forceDisableHardwareAcceleration"
       => hardwareAccelImpl = implReference /\ ~IsHardwareAccelerated
  /\ fn.f = "init" /\ ~(cpu.asm /\ supportsAVX2BMI2(cpu))
       => hardwareAccelImpl = implReference /\ ~IsHardwareAccelerated

\* Disabled, selected again by initHardwareAcceleration, and reported.
BackEndSelectionWitness ==
  /\ fn.f = "IsHardwareAccelerated" /\ fn.ret
  /\ fn.before = <<"init", "forceDisableHardwareAcceleration", "initHardwareAcceleration">>
  /\ hardwareAccelImpl = implAVX2BMI2

(***************************************************************************)
(* chacha20 on its own: the key and nonce of the known-answer test, an     *)
(* input of n pattern bytes and an out buffer of n + spare bytes, under    *)
(* the back-end the host selects.  fn holds the arguments and, once the    *)
(* function has run, the out buffer as it left it.                         *)
(***************************************************************************)
ChaCha20Args ==
  {[f |-> "chacha20", done |-> FALSE, counter |-> c, n |-> n, spare |-> e, out |-> <<>>] :
     c \in {0, 1},
     n \in {0, 1, 63, 64, 65, 100, 128, 130},
     e \in {0, 5, 32, 64, 70}}

InitChaCha ==
  /\ InitPackage
  /\ fn \in ChaCha20Args
  /\ aead = <<>>
  /\ pc = OneCaller
  /\ fr = <<noFrame>>
  /\ gh = <<noGhost>>
  /\ log = noLog
  /\ ncalls = 0

ApplyChaCha20 ==
  /\ fn.f = "chacha20" /\ ~fn.done
  /\ fn' = With(chacha20(Key0, Nonce0, W(fn.n), Garbage(fn.n + fn.spare), fn.counter),
                LAMBDA r : [fn EXCEPT !.done = TRUE, !.out = r.out])
  /\ UNCHANGED <<cpu, isHardwareAccelerated, hardwareAccelImpl, zero, aead, mem, pc, fr,
                 gh, log, ncalls>>

NextChaCha == ApplyChaCha20

SpecChaCha == InitChaCha /\ [][NextChaCha]_vars

\* C12: for every in and every out with len(out) >= len(in), whether or not
\* len(in) is a multiple of 64, chacha20 writes only out[0..len(in)-1]: every
\* byte of out at an index >= len(in) is as it was before the call.
ChaCha20WritesOnlyInput ==
  (fn.f = "chacha20" /\ fn.done) =>
    /\ Len(fn.out) = fn.n + fn.spare
    /\ \A i \in (fn.n + 1)..(fn.n + fn.spare) : fn.out[i] = Garbage(fn.n + fn.spare)[i]

(***************************************************************************)
(* One accumulator lane on its own: from the value sivSetup gives it (or   *)
(* from another value below 2^63), hashStep folds the NH output of block   *)
(* after block into it with the lane's key, and hashFinalize reduces it.   *)
(* fn holds the lane: its key k, the value a0 it started from, its value   *)
(* a, the blocks absorbed, the arguments (prev, b) of the last polyStep    *)
(* and, once reduced, the result fin of polyFinalize.                      *)
(***************************************************************************)
MaxBlocks == 4

\* Key-stream words that setup masks to poly keys.
RawPolyKeys == {<<10182, 48795, 2152, 65533>>, <<65535, 65535, 65535, 65535>>, <<1, 0, 0, 0>>}

\* NH sums of a lane, before hashStep masks them.
NHOutputs ==
  {<<65535, 65535, 65535, 45055>>, <<43512, 16845, 65496, 45055>>,
   <<35328, 49127, 4253, 45055>>, <<19547, 44683, 65467, 45055>>, <<0, 0, 0, 0>>}

\* Lane values: 0, 1, 2^61 - 2, 2^61 - 1, 2^61 and two values just below 2^63.
LaneValues ==
  {U64Zero, U64One, <<65534, 65535, 65535, 8191>>, m61, <<0, 0, 0, 8192>>,
   <<63481, 22035, 61370, 32767>>, <<65535, 65535, 65535, 32767>>}

InitPoly ==
  /\ InitPackageOn({hostPortable})
  /\ \E raw \in RawPolyKeys, a \in LaneValues :
       fn = [f |-> "sivSetup", k |-> And64(raw, m60), a0 |-> a, a |-> a, n |-> 0,
             prev |-> a, b |-> U64Zero, fin |-> U64Zero]
  /\ aead = <<>>
  /\ pc = OneCaller
  /\ fr = <<noFrame>>
  /\ gh = <<noGhost>>
  /\ log = noLog
  /\ ncalls = 0

\* accum[j] = polyStep(accum[j], nhRes[j]&m60, ctx.polyKey[j])
AbsorbBlock ==
  /\ fn.f \in {"sivSetup", "polyStep"}
  /\ fn.n < MaxBlocks
  /\ \E nhRes \in NHOutputs :
       fn' = With(polyStep(fn.a, And64(nhRes, m60), fn.k), LAMBDA r :
               [fn EXCEPT !.f = "polyStep", !.a = r, !.n = fn.n + 1, !.prev = fn.a,
                          !.b = And64(nhRes, m60)])
  /\ UNCHANGED <<cpu, isHardwareAccelerated, hardwareAccelImpl, zero, aead, mem, pc, fr,
                 gh, log, ncalls>>

\* polyFinalize(accum[j])
ReduceLane ==
  /\ fn.f \in {"sivSetup", "polyStep"}
  /\ fn' = With(polyFinalize(fn.a), LAMBDA r : [fn EXCEPT !.f = "polyFinalize", !.fin = r])
  /\ UNCHANGED <<cpu, isHardwareAccelerated, hardwareAccelImpl, zero, aead, mem, pc, fr,
                 gh, log, ncalls>>

NextPoly == AbsorbBlock \/ ReduceLane

SpecPoly == InitPoly /\ [][NextPoly]_vars

\* a < b as unsigned 64-bit values.
Less64(a, b) ==
  \E i \in 1..4 : a[i] < b[i] /\ \A j \in (i + 1)..4 : a[j] = b[j]

\* a + b does not fit 64 bits.
Carry64(a, b) == Less64(Add64(a, b), a)

\* The uint64 q * (2^61 - 1), for q in 0..7.
TimesP(q) == Sub64(Shl64(U64FromInt(q), 61), U64FromInt(q))

\* r is the residue of the uint64 x modulo 2^61 - 1.
IsResidue(r, x) ==
  /\ Less64(r, m61)
  /\ \E q \in 0..7 : Add64(r, TimesP(q)) = x /\ ~Carry64(r, TimesP(q))

\* The residue of x < 2^64 - 8 modulo 2^61 - 1.
Residue(x) == CHOOSE r \in {Sub64(x, TimesP(q)) : q \in 0..7} : IsResidue(r, x)

\* u + v modulo 2^61 - 1, for residues u and v.
AddMod(u, v) == IF Less64(Add64(u, v), m61) THEN Add64(u, v) ELSE Sub64(Add64(u, v), m61)

Bit(k, i) == (k[(i \div 16) + 1] \div Pow2(i % 16)) % 2

\* x * 2^i modulo 2^61 - 1 for a residue x: its 61 bits rotated left by i.
Low61(x) == <<x[1], x[2], x[3], x[4] % 8192>>
Rot61(x, i) == Add64(Low61(Shl64(x, i)), Shr64(x, 61 - i))

\* The sum over the bits lo..hi of k of x * 2^i, modulo 2^61 - 1.
RECURSIVE SumTerms(_, _, _, _)
SumTerms(x, k, lo, hi) ==
  IF lo = hi
  THEN IF Bit(k, lo) = 1 THEN Rot61(x, lo) ELSE U64Zero
  ELSE With(SumTerms(x, k, lo, (lo + hi) \div 2), LAMBDA u :
         With(SumTerms(x, k, ((lo + hi) \div 2) + 1, hi), LAMBDA v : AddMod(u, v)))

\* a * k + b modulo 2^61 - 1, for k < 2^60, by binary multiplication.
MulAddMod(a, k, b) == AddMod(SumTerms(Residue(a), k, 0, 59), Residue(b))

\* Some intermediate value of polyStep(a, b, k) does not fit 64 bits: the
\* sum m, the shifted h, or one of the sums of the returned expression.
RECURSIVE SumOverflows(_, _, _)
SumOverflows(acc, terms, i) ==
  /\ i <= Len(terms)
  /\ \/ Carry64(acc, terms[i])
     \/ SumOverflows(Add64(acc, terms[i]), terms, i + 1)

polyStepOverflows(a, b, k) ==
  \/ Carry64(Mul32(Hi32(a), Lo32(k)), Mul32(Hi32(k), Lo32(a)))
  \/ Shr64(Mul32(Hi32(a), Hi32(k)), 61) # U64Zero
  \/ With(Add64(Mul32(Hi32(a), Lo32(k)), Mul32(Hi32(k), Lo32(a))), LAMBDA m :
       SumOverflows(And64(Mul32(Lo32(a), Lo32(k)), m61),
                    <<Shl64(Mul32(Hi32(a), Hi32(k)), 3), Shr64(Mul32(Lo32(a), Lo32(k)), 61),
                      b, Shr64(m, 29), And64(Shl64(m, 32), m61)>>, 1))

\* x < 2^60, x < 2^63 and x < 5 * 2^61.
Below60(x) == x[4] < 4096
Below63(x) == x[4] < 32768
Below5x61(x) == x[4] < 40960

PolyFinalizeCanonical ==
  fn.f = "polyFinalize" =>
    /\ IsResidue(fn.fin, fn.a)
    /\ fn.a = m61 => fn.fin = U64Zero
    /\ Less64(fn.a, m61) => fn.fin = fn.a

\* The reduction of a value at or above 2^63 that four polySteps made of 1.
PolyFinalizeCanonicalWitness ==
  /\ fn.f = "polyFinalize" /\ fn.a0 = U64One /\ fn.n = 4
  /\ ~Below63(fn.a)
  /\ Less64(fn.fin, m61) /\ fn.fin # fn.a

(***************************************************************************)
(* The inputs of the hash calls of Seal and Open.                          *)
(***************************************************************************)
\* The length block of the call of t: AD length, then message length.
LengthBlock(t) ==
  PutUint64(U64FromInt(fr[t].ad.n))
    \o PutUint64(U64FromInt(IF fr[t].op = "Seal" THEN fr[t].src.n ELSE fr[t].src.n - TagSize))

\* The hash calls the call of t has made so far.
HashCalls(t) ==
  IF fr[t].op \in {"Seal", "Open"} THEN {fr[t].hashed[i] : i \in 1..Len(fr[t].hashed)} ELSE {}

\* C15: in every Seal and Open, each hashStep call receives a multiple of 64
\* bytes; each hashFinalize call receives a non-zero multiple of 16 bytes,
\* at most 64, that ends with the 16-byte length block (AD length, then
\* message length, 8 bytes little-endian each) or, for the message key, is
\* exactly the 32-byte SIV; no call reads past its input or past the
\* 36-word NH key.
HashInputsShaped ==
  \A t \in Callers : \A c \in HashCalls(t) :
    /\ c.reach.in <= c.n
    /\ c.reach.key <= nhKeyLen /\ nhKeyLen = 36
    /\ c.f = "hashStep" => c.n % 64 = 0
    /\ c.f = "hashFinalize" =>
         /\ c.n > 0 /\ c.n % 16 = 0 /\ c.n <= 64
         /\ c.use = "siv" => Slice(c.in, c.n - 16, c.n) = LengthBlock(t)
         /\ c.use = "key" => c.n = 32 /\ c.in = fr[t].siv

\* An Open that succeeded after hashing a 64-byte block of AD, a padded
\* block of message, the bare length block and the SIV.
HashInputsShapedWitness ==
  \E t \in Callers :
    /\ pc[t] = "returned" /\ fr[t].op = "Open" /\ fr[t].ok
    /\ \E c \in HashCalls(t) : c.f = "hashStep" /\ c.n = 64 /\ c.reach.key = 36
    /\ \E c \in HashCalls(t) : c.f = "hashFinalize" /\ c.use = "siv" /\ c.n = 16
    /\ \E c \in HashCalls(t) : c.f = "hashFinalize" /\ c.use = "key" /\ c.n = 32
    /\ Len(fr[t].hashed) = 5

====
